---- MODULE Spec2Model ----
(***************************************************************************)
(* Model of the Wordle statistics bot in src/index.js: the score-line      *)
(* parser, the in-memory score store, the historical backfill crawl, live  *)
(* ingest of messageCreate events and the wordlestats command.             *)
(*                                                                         *)
(* JavaScript runs every handler to completion, so one action is one       *)
(* synchronous stretch of code: from an event or a settled await to the    *)
(* next await or the return.                                               *)
(***************************************************************************)
EXTENDS Integers, Sequences, FiniteSets, TLC

----------------------------------------------------------------------------
(* Bounds of the model *)

\* batchSize of the crawl (the code's 100, line 145), scaled down
batchSize == 2
\* number of messages in the channel before the bot connects
MaxHistory == 3
\* number of messages posted while the bot is connected
MaxLive == 1
\* number of clock ticks that pass while the bot is connected
MaxTicks == 1
\* resolution of the clock: ticks in one day
TicksPerDay == 2
\* the largest number of page fetches the crawl is followed for
MaxFetches == 4

----------------------------------------------------------------------------
(* Dates: a time is a number of ticks since the epoch of the JS Date *)

EpochYear == 1970

IsLeap(y) == (y % 4 = 0 /\ y % 100 # 0) \/ y % 400 = 0

\* Leap years from year 1 up to and including y
LeapsThrough(y) == (y \div 4) - (y \div 100) + (y \div 400)

\* Days from 1 January of EpochYear to 1 January of y
DaysBeforeYear(y) ==
  365 * (y - EpochYear) + LeapsThrough(y - 1) - LeapsThrough(EpochYear - 1)

\* Days from 1 January of y to the first of month m, a JS month index 0..11
DaysBeforeMonth(y, m) ==
  LET common == <<0, 31, 59, 90, 120, 151, 181, 212, 243, 273, 304, 334, 365>>
  IN  common[m + 1] + (IF m >= 2 /\ IsLeap(y) THEN 1 ELSE 0)

\* The day number of (year, month index, day of month) as the Date setters
\* normalise it: a month index outside 0..11 carries into the year, a day of
\* month past the end of the month rolls over into the following month.
MakeDay(y, m, d) ==
  LET yy == y + (m \div 12)
      mm == m % 12
  IN  DaysBeforeYear(yy) + DaysBeforeMonth(yy, mm) + (d - 1)

DayOf(t) == t \div TicksPerDay
TimeOfDay(t) == t % TicksPerDay

\* The year a day number falls in
YearOfDay(day) ==
  CHOOSE y \in {EpochYear + (day \div 366), EpochYear + (day \div 366) + 1} :
    DaysBeforeYear(y) <= day /\ day < DaysBeforeYear(y + 1)

\* The month index in which day number `rest` of year y falls
MonthOfDay(y, rest) ==
  CHOOSE m \in 0..11 :
    DaysBeforeMonth(y, m) <= rest /\ rest < DaysBeforeMonth(y, m + 1)

\* The local fields of a Date: year, month index, day of month
DateFields(t) ==
  CHOOSE fields \in
    UNION {{[year |-> y, month |-> m,
             date |-> DayOf(t) - DaysBeforeYear(y) - DaysBeforeMonth(y, m) + 1] :
              m \in {MonthOfDay(y, DayOf(t) - DaysBeforeYear(y))}} :
           y \in {YearOfDay(DayOf(t))}} : TRUE

getFullYear(t) == DateFields(t).year

getMonth(t) == DateFields(t).month

getDate(t) == DateFields(t).date

MakeTime(y, m, d, tod) == MakeDay(y, m, d) * TicksPerDay + tod

setFullYear(t, y) == MakeTime(y, getMonth(t), getDate(t), TimeOfDay(t))

setMonth(t, m) == MakeTime(getFullYear(t), m, getDate(t), TimeOfDay(t))

\* setHours(0, 0, 0, 0)
setHours(t) == DayOf(t) * TicksPerDay

----------------------------------------------------------------------------
(* Texts are sequences of characters *)

null == [null |-> TRUE]
NaN == [NaN |-> TRUE]

Digits == <<"0", "1", "2", "3", "4", "5", "6", "7", "8", "9">>

IsDigit(c) == \E k \in 1..10 : Digits[k] = c

DigitValue(c) == (CHOOSE k \in 1..10 : Digits[k] = c) - 1

\* \s of the regular expression
IsSpace(c) == c \in {" ", "\n"}

toUpperCase(c) ==
  CASE c = "w" -> "W" [] c = "o" -> "O" [] c = "r" -> "R" [] c = "d" -> "D"
    [] c = "l" -> "L" [] c = "e" -> "E" [] c = "x" -> "X" [] c = "h" -> "H"
    [] c = "i" -> "I" [] OTHER -> c

\* s[a..b-1] is a run of digits, of whitespace (the empty run included)
IsDigitRun(s, a, b) == \A k \in a..(b - 1) : IsDigit(s[k])

IsSpaceRun(s, a, b) == \A k \in a..(b - 1) : IsSpace(s[k])

RECURSIVE parseIntFrom(_, _, _)
parseIntFrom(s, i, acc) ==
  IF i > Len(s) \/ ~IsDigit(s[i]) THEN acc
  ELSE parseIntFrom(s, i + 1, acc * 10 + DigitValue(s[i]))

\* parseInt of a text without sign or leading whitespace: the number its
\* leading digits spell, NaN when it does not start with a digit
parseInt(s) ==
  IF Len(s) = 0 \/ ~IsDigit(s[1]) THEN NaN ELSE parseIntFrom(s, 1, 0)

\* replace(/,/g, '')
RemoveCommas(s) == SelectSeq(s, LAMBDA c : c # ",")

Keyword == <<"W", "O", "R", "D", "L", "E">>

\* (\d+,?\d*) matches s[b..e-1]
IsNumberText(s, b, e) ==
  \E c \in (b + 1)..e :
    /\ IsDigitRun(s, b, c)
    /\ \/ IsDigitRun(s, c, e)
       \/ c < e /\ s[c] = "," /\ IsDigitRun(s, c + 1, e)

\* [1-6X] under the i flag
IsResultToken(c) == toUpperCase(c) \in {"1", "2", "3", "4", "5", "6", "X"}

\* The ways WORDLE_REGEX = /Wordle\s+(\d+,?\d*)\s+([1-6X])\/(\d+)(\*?)/i
\* matches s from position i: <<b, e, f, g, h>> where the number is
\* s[b..e-1], the result token s[f], the maximum s[f+2..g-1], and h is the end
\* of the match, g + 1 when the mark * is taken
MatchesAt(s, i) ==
  IF i + 5 <= Len(s) /\ \A k \in 1..6 : toUpperCase(s[i + k - 1]) = Keyword[k]
  THEN UNION {UNION {UNION {UNION {
         {<<b, e, f, g, h>> :
            h \in {x \in {g, g + 1} : x = g \/ (g <= Len(s) /\ s[g] = "*")}} :
          g \in {x \in (f + 3)..(Len(s) + 1) : IsDigitRun(s, f + 2, x)}} :
         f \in {x \in (e + 1)..(Len(s) - 1) :
                  IsSpaceRun(s, e, x) /\ IsResultToken(s[x]) /\ s[x + 1] = "/"}} :
        e \in {x \in (b + 1)..(Len(s) + 1) : IsNumberText(s, b, x)}} :
       b \in {x \in (i + 7)..(Len(s) + 1) : IsSpaceRun(s, i + 6, x)}}
  ELSE {}

\* u comes before t, or is t, in the order of the positions
LexLeq(u, t) ==
  \E k \in 1..(Len(t) + 1) :
    /\ \A j \in 1..(k - 1) : u[j] = t[j]
    /\ k <= Len(t) => u[k] < t[k]

\* Every quantifier of the expression is greedy: of the ways to match from i
\* the engine takes the one with the longest runs, earlier runs first
MatchAt(s, i) ==
  CHOOSE groups \in
    {[g1 |-> SubSeq(s, t[1], t[2] - 1), g2 |-> <<s[t[3]]>>,
      g3 |-> SubSeq(s, t[3] + 2, t[4] - 1),
      g4 |-> SubSeq(s, t[4], t[5] - 1)] :
       t \in {t \in MatchesAt(s, i) : \A u \in MatchesAt(s, i) : LexLeq(u, t)}} : TRUE

\* content.match(WORDLE_REGEX): the leftmost match, or null
Match(s) ==
  CHOOSE match \in
    {IF hits = {} THEN null
     ELSE MatchAt(s, CHOOSE i \in hits : \A j \in hits : i <= j) :
       hits \in {{i \in 1..Len(s) : MatchesAt(s, i) # {}}}} : TRUE

----------------------------------------------------------------------------
(* The program state *)

VARIABLES
  now,               \* the clock that new Date() reads
  guildPresent,      \* client.guilds.cache.first() is a guild
  channelPresent,    \* the guild has a channel named WORDLE_CHANNEL_NAME
  channelMessages,   \* the messages of that channel on the platform, oldest first
  gateway,           \* messageCreate events sent to the client, not yet handled
  userScores,        \* the Map userScores: its entries in insertion order
  pc,                \* where the ready handler and the crawl it starts stand
  oneYearAgo,        \* locals of fetchHistoricalMessages
  lastId,
  messagesProcessed,
  scoresFound,
  messages,          \* the outcome of the awaited channel.messages.fetch
  exit,              \* the way fetchHistoricalMessages ended
  returned,          \* what the promise of fetchHistoricalMessages settled with
  reply,             \* the statistics calculateStats returned last
  content,           \* a text handed to parseWordleScore, and what it returned
  parsed,
  window,            \* the period and the dates of the last window examined
  fetches,           \* history: number of page fetches issued
  delays,            \* history: number of inter-page delays completed
  visited,           \* history: ids of the messages the crawl parsed, in order
  appended,          \* history: the records pushed, with message id and producer
  nextId,            \* the id the next message posted gets
  posted             \* history: number of messages posted since the bot connected

vars == <<now, guildPresent, channelPresent, channelMessages, gateway,
          userScores, pc, oneYearAgo, lastId, messagesProcessed, scoresFound,
          messages, exit, returned, reply, content, parsed, fetches, delays,
          visited, appended, nextId, posted, window>>

envVars == <<guildPresent, channelPresent>>
crawlLocals == <<oneYearAgo, lastId, messagesProcessed, scoresFound, messages>>
probeVars == <<content, parsed, window>>

WORDLE_CHANNEL_NAME == "gamers-rise-up"
ChannelNames == {WORDLE_CHANNEL_NAME, "general"}

Users == {"u1", "u2"}

\* "Wordle 5 3/6"
ScoreText == <<"W", "o", "r", "d", "l", "e", " ", "5", " ", "3", "/", "6">>
\* "wordle 1,2 x/6*"
FailText == <<"w", "o", "r", "d", "l", "e", " ", "1", ",", "2", " ", "x",
              "/", "6", "*">>
\* "hi"
ChatText == <<"h", "i">>

Contents == {ScoreText, FailText, ChatText}

\* The texts parseWordleScore is tried on by itself: an optional prefix, the
\* keyword, whitespace, a puzzle number, a blank, a result token, a slash, the
\* maximum and an optional hard-mode mark
Prefixes == {<<>>, <<"h", "i", " ">>}
KeywordTexts == {<<"W", "o", "r", "d", "l", "e">>, <<"w", "O", "R", "D", "L", "E">>}
Gaps == {<<" ">>, <<" ", "\n">>}
NumberTexts == {<<"5">>, <<"1", ",", "2">>, <<",", "5">>}
ResultTokens ==
  {<<c>> : c \in {"0", "1", "2", "3", "4", "5", "6", "7", "X", "x", "h"}}
    \cup {<<"1", "6">>, <<>>}
MaxTexts == {<<"6">>, <<"1", "0">>}
Marks == {<<>>, <<"*">>}

ParseTexts ==
  {pre \o kw \o gap \o num \o <<" ">> \o tok \o <<"/">> \o max \o mark :
     pre \in Prefixes, kw \in KeywordTexts, gap \in Gaps, num \in NumberTexts,
     tok \in ResultTokens, max \in MaxTexts, mark \in Marks}

\* The clock when the bot connects: 31 March 2024, past midnight
StartTime == MakeTime(2024, 2, 31, 1)

----------------------------------------------------------------------------
(* parseWordleScore *)

ScoreRecordX0(match) ==
  LET wordleNumberStr == RemoveCommas(match.g1)
      wordleNumber == parseInt(wordleNumberStr)
      score == parseInt(match.g2)
      maxAttempts == parseInt(match.g3)
      hardMode == (match.g4 = <<"*">>)
      scoreValue == IF toUpperCase(match.g2[1]) = "X" THEN 0 ELSE score
  IN  [wordleNumber |-> wordleNumber, score |-> scoreValue,
       maxAttempts |-> maxAttempts, hardMode |-> hardMode, timestamp |-> now]

\* Lines 26-41: the record of a match
ScoreRecord(match) ==
  LET wordleNumberStr == RemoveCommas(match.g1)
      wordleNumber == parseInt(wordleNumberStr)
      score == parseInt(match.g2)
      maxAttempts == parseInt(match.g3)
      hardMode == (match.g4 = <<"*">>)
      scoreValue == IF toUpperCase(match.g2[1]) = "X" THEN 7 ELSE score
  IN  [wordleNumber |-> wordleNumber, score |-> scoreValue,
       maxAttempts |-> maxAttempts, hardMode |-> hardMode, timestamp |-> now]

parseWordleScore(text) ==
  CHOOSE result \in
    {IF match # null THEN ScoreRecord(match) ELSE null :
       match \in {Match(text)}} : TRUE

----------------------------------------------------------------------------
(* The Map userScores *)

has(map, userId) == \E i \in 1..Len(map) : map[i].userId = userId

get(map, userId) ==
  map[CHOOSE i \in 1..Len(map) : map[i].userId = userId].scores

\* userScores.set(userId, []) for a key the map does not hold
setEmpty(map, userId) == Append(map, [userId |-> userId, scores |-> <<>>])

pushReplace(map, userId, record) ==
  LET i == CHOOSE k \in 1..Len(map) : map[k].userId = userId
  IN  [map EXCEPT ![i].scores = <<record>>]

\* userScores.get(userId).push(record)
push(map, userId, record) ==
  LET i == CHOOSE k \in 1..Len(map) : map[k].userId = userId
  IN  [map EXCEPT ![i].scores = Append(@, record)]

ScoreOfParseTime(score, message) == score

\* { ...score, timestamp: message.createdAt }
ScoreOf(score, message) == [score EXCEPT !.timestamp = message.createdAt]

StoreScoreReset(map, message, score) ==
  LET userId == message.author
      map1 == IF ~has(map, userId) THEN setEmpty(map, userId) ELSE map
      i == CHOOSE k \in 1..Len(map1) : map1[k].userId = userId
  IN  push([map1 EXCEPT ![i].scores = <<>>], userId, ScoreOf(score, message))

\* Lines 169-176 and 205-212: create the author's sequence on first use, then
\* push the record
StoreScore(map, message, score) ==
  LET userId == message.author
      map1 == IF ~has(map, userId) THEN setEmpty(map, userId) ELSE map
  IN  push(map1, userId, ScoreOf(score, message))

----------------------------------------------------------------------------
(* calculateStats *)

RECURSIVE SumScores(_)
SumScores(scores) ==
  IF scores = <<>> THEN 0 ELSE Head(scores).score + SumScores(Tail(scores))

toFixed2Floor(totalScore, length) == (100 * totalScore) \div length

\* parseFloat((totalScore / length).toFixed(2)), in hundredths: the quotient
\* rounded to two decimals, a half rounded up
toFixed2(totalScore, length) == (200 * totalScore + length) \div (2 * length)

\* The bucket a score is counted in: 1..6, and 7 for distribution.X
Bucket(score) == IF score >= 1 /\ score <= 6 THEN score ELSE 7

Distribution(filteredScores) ==
  [b \in 1..7 |->
     Cardinality({i \in 1..Len(filteredScores) :
                    Bucket(filteredScores[i].score) = b})]

InWindowExclusive(score, startDate, endDate) ==
  score.timestamp >= startDate /\ score.timestamp < endDate

InWindow(score, startDate, endDate) ==
  score.timestamp >= startDate /\ score.timestamp <= endDate

FilteredAll(scores, startDate, endDate) == scores

Filtered(scores, startDate, endDate) ==
  SelectSeq(scores, LAMBDA sc : InWindow(sc, startDate, endDate))

UserStat(userId, filteredScores) ==
  [userId |-> userId,
   totalGames |-> Len(filteredScores),
   averageScore |-> toFixed2(SumScores(filteredScores), Len(filteredScores)),
   distribution |-> Distribution(filteredScores)]

\* The loop over userScores.entries(): one UserStat pushed for every entry
\* with a score in the window, in the order of the entries
RECURSIVE CollectStats(_, _, _)
CollectStats(map, startDate, endDate) ==
  IF map = <<>> THEN <<>>
  ELSE LET entry == map[Len(map)]
           stats == CollectStats(SubSeq(map, 1, Len(map) - 1), startDate, endDate)
           filteredScores == Filtered(entry.scores, startDate, endDate)
       IN  IF Len(filteredScores) > 0
           THEN Append(stats, UserStat(entry.userId, filteredScores))
           ELSE stats

RECURSIVE InsertStatUnstable(_, _)
InsertStatUnstable(sorted, stat) ==
  IF sorted = <<>> THEN <<stat>>
  ELSE LET last == sorted[Len(sorted)]
       IN  IF last.averageScore - stat.averageScore >= 0
           THEN Append(InsertStatUnstable(SubSeq(sorted, 1, Len(sorted) - 1), stat), last)
           ELSE Append(sorted, stat)

\* Array.prototype.sort with the comparator a.averageScore - b.averageScore:
\* a stable sort, here by insertion
RECURSIVE InsertStat(_, _)
InsertStat(sorted, stat) ==
  IF sorted = <<>> THEN <<stat>>
  ELSE LET last == sorted[Len(sorted)]
       IN  IF last.averageScore - stat.averageScore > 0
           THEN Append(InsertStat(SubSeq(sorted, 1, Len(sorted) - 1), stat), last)
           ELSE Append(sorted, stat)

RECURSIVE SortStats(_)
SortStats(stats) ==
  IF stats = <<>> THEN <<>>
  ELSE CHOOSE result \in
         {InsertStat(sorted, stats[Len(stats)]) :
            sorted \in {SortStats(SubSeq(stats, 1, Len(stats) - 1))}} : TRUE

calculateStats(startDate, endDate) ==
  SortStats(CollectStats(userScores, startDate, endDate))

----------------------------------------------------------------------------
(* The platform *)

NoId == 0

\* channel.messages.fetch({ limit, before }): the newest `limit` messages of
\* the channel older than `before` (all of them when before is not set),
\* newest first
FetchPage(channel, limit, before) ==
  LET older == SelectSeq(channel, LAMBDA m : before = NoId \/ m.id < before)
      n == Len(older)
      size == IF n < limit THEN n ELSE limit
  IN  [i \in 1..size |-> older[n - i + 1]]

\* A fetch resolves with the page, or rejects
FetchOutcomes(channel, limit, before) ==
  { [ok |-> TRUE, page |-> FetchPage(channel, limit, before)],
    [ok |-> FALSE, page |-> <<>>] }

NoMessages == [ok |-> TRUE, page |-> <<>>]

----------------------------------------------------------------------------
(* The initial state: the client is constructed and logged in, the ready     *)
(* event is being handled and awaits the registration of the commands        *)

\* The horizon of a crawl that starts at once, and the creation times the
\* messages of the channel are drawn from: at the horizon and a tick before
StartHorizon == setFullYear(StartTime, getFullYear(StartTime) - 1)
HistoryTimes == {StartHorizon - 1, StartHorizon}

\* Who posts what: a solved puzzle, a failed one in hard mode, and chatter
Posts == {<<"u1", ScoreText>>, <<"u2", FailText>>, <<"u1", ChatText>>}

\* What is posted while the bot is connected: the same in its channel, and a
\* score line in another channel
LivePosts ==
  {<<post[1], post[2], WORDLE_CHANNEL_NAME>> : post \in Posts}
    \cup {<<"u1", ScoreText, "general">>}

Message(id, author, text, createdAt, channel) ==
  [id |-> id, author |-> author, content |-> text, createdAt |-> createdAt,
   channel |-> channel]

\* Channel histories of n messages: ids and creation times grow together
HistoriesOf(posts, times, n) ==
  LET raw == [1..n -> posts \X times]
      ordered == {h \in raw : \A i \in 1..(n - 1) : h[i][2] <= h[i + 1][2]}
  IN  {[i \in 1..n |->
          Message(i, h[i][1][1], h[i][1][2], h[i][2], WORDLE_CHANNEL_NAME)] :
         h \in ordered}

Histories(n) == HistoriesOf(Posts, HistoryTimes, n)

Unparsed == [unparsed |-> TRUE]
\* reply holds no reply, or the one list of statistics replied last
NoReply == <<>>
NoWindow == [periodChoice |-> "", startDate |-> 0, endDate |-> 0]

InitCommon ==
  /\ now = StartTime
  /\ gateway = <<>>
  /\ userScores = <<>>
  /\ pc = "register"
  /\ oneYearAgo = 0
  /\ lastId = NoId
  /\ messagesProcessed = 0
  /\ scoresFound = 0
  /\ messages = NoMessages
  /\ exit = "none"
  /\ returned = "pending"
  /\ reply = NoReply
  /\ parsed = Unparsed
  /\ window = NoWindow
  /\ fetches = 0
  /\ delays = 0
  /\ visited = <<>>
  /\ appended = <<>>
  /\ nextId = Len(channelMessages) + 1
  /\ posted = 0

Init ==
  /\ guildPresent \in BOOLEAN
  /\ channelPresent \in BOOLEAN
  /\ \E n \in 0..MaxHistory : channelMessages \in Histories(n)
  /\ (~guildPresent \/ ~channelPresent) => channelMessages = <<>>
  /\ ~guildPresent => ~channelPresent
  /\ content = <<>>
  /\ InitCommon

----------------------------------------------------------------------------
(* The ready handler and fetchHistoricalMessages *)

OlderThanNever(message, horizon) == FALSE

\* Line 162: message.createdAt < oneYearAgo
OlderThan(message, horizon) == message.createdAt < horizon

\* Lines 167-179: one message of the page is parsed, and stored when it holds
\* a score. acc holds userScores, scoresFound and the history.
Visit(acc, message) ==
  CHOOSE result \in
    {IF score # null
     THEN [acc EXCEPT
             !.visited = Append(@, message.id),
             !.userScores = StoreScore(@, message, score),
             !.scoresFound = @ + 1,
             !.appended = Append(@, [id |-> message.id, via |-> "crawl",
                                     userId |-> message.author,
                                     record |-> ScoreOf(score, message)])]
     ELSE [acc EXCEPT !.visited = Append(@, message.id)] :
       score \in {parseWordleScore(message.content)}} : TRUE

\* Lines 160-180: the loop over the page, newest message first, from its i-th
\* message on; crossed is set by the return of line 164
RECURSIVE ProcessMessages(_, _, _)
ProcessMessages(page, i, acc) ==
  IF i > Len(page) THEN acc
  ELSE IF OlderThan(page[i], oneYearAgo) THEN [acc EXCEPT !.crossed = TRUE]
  ELSE CHOOSE result \in
         {ProcessMessages(page, i + 1, next) :
            next \in {Visit(acc, page[i])}} : TRUE

CursorNewest(page) == page[1].id

CursorNone(page) == NoId

\* Line 157: messages.last().id, the id of the oldest message of the page
Cursor(page) == page[Len(page)].id

\* What fetchHistoricalMessages returns, by the way it ends: every return
\* statement is a bare return and the catch block returns nothing
ReturnValue(how) == "undefined"

\* fetchHistoricalMessages returns
Return(how) ==
  /\ pc' = "done"
  /\ exit' = how
  /\ returned' = ReturnValue(how)

\* Lines 149-152: the next page is requested and the platform answers
IssueFetch(before) ==
  /\ fetches < MaxFetches
  /\ fetches' = fetches + 1
  /\ messages' \in FetchOutcomes(channelMessages, batchSize, before)
  /\ pc' = "fetch"
  /\ UNCHANGED <<exit, returned>>

history == <<fetches, delays, visited, appended>>

RegistrationDoneNoCheck ==
  /\ pc = "register"
  /\ oneYearAgo' = setFullYear(now, getFullYear(now) - 1)
  /\ lastId' = NoId
  /\ messagesProcessed' = 0
  /\ scoresFound' = 0
  /\ IssueFetch(NoId)
  /\ UNCHANGED <<now, envVars, channelMessages, gateway, userScores, reply,
                 probeVars, delays, visited, appended, nextId, posted>>

\* Line 110 resolved: lines 111-114, then fetchHistoricalMessages up to its
\* first await (lines 122-152)
RegistrationDone ==
  /\ pc = "register"
  /\ IF ~guildPresent
     THEN Return("noGuild") /\ UNCHANGED <<crawlLocals, fetches>>
     ELSE IF ~channelPresent
     THEN Return("noChannel") /\ UNCHANGED <<crawlLocals, fetches>>
     ELSE /\ oneYearAgo' = setFullYear(now, getFullYear(now) - 1)
          /\ lastId' = NoId
          /\ messagesProcessed' = 0
          /\ scoresFound' = 0
          /\ IssueFetch(NoId)
  /\ UNCHANGED <<now, envVars, channelMessages, gateway, userScores, reply,
                 probeVars, delays, visited, appended, nextId, posted>>

RegistrationFailedFetches ==
  /\ pc = "register"
  /\ pc' = "setupFailed"
  /\ fetches < MaxFetches
  /\ fetches' = fetches + 1
  /\ messages' \in FetchOutcomes(channelMessages, batchSize, NoId)
  /\ UNCHANGED <<now, envVars, channelMessages, gateway, userScores,
                 oneYearAgo, lastId, messagesProcessed, scoresFound, exit,
                 returned, reply, probeVars, delays, visited, appended,
                 nextId, posted>>

\* Line 110 rejected: the catch of lines 115-117, the crawl is never called
RegistrationFailed ==
  /\ pc = "register"
  /\ pc' = "setupFailed"
  /\ UNCHANGED <<now, envVars, channelMessages, gateway, userScores,
                 crawlLocals, exit, returned, reply, probeVars, history,
                 nextId, posted>>

PageFetchedNoDelay ==
  /\ pc = "fetch"
  /\ messages.ok
  /\ LET page == messages.page
     IN  IF Len(page) = 0
         THEN /\ Return("empty")
              /\ UNCHANGED <<userScores, lastId, messagesProcessed,
                             scoresFound, visited, appended, messages, fetches>>
         ELSE \E acc \in {ProcessMessages(page, 1,
                              [userScores |-> userScores,
                               scoresFound |-> scoresFound,
                               visited |-> visited,
                               appended |-> appended,
                               crossed |-> FALSE])} :
                  /\ messagesProcessed' = messagesProcessed + Len(page)
                  /\ lastId' = Cursor(page)
                  /\ userScores' = acc.userScores
                  /\ scoresFound' = acc.scoresFound
                  /\ visited' = acc.visited
                  /\ appended' = acc.appended
                  /\ IF acc.crossed
                     THEN Return("horizon") /\ UNCHANGED <<messages, fetches>>
                     ELSE IF Len(page) < batchSize
                     THEN Return("short") /\ UNCHANGED <<messages, fetches>>
                     ELSE IssueFetch(Cursor(page))
  /\ UNCHANGED <<now, envVars, channelMessages, gateway, oneYearAgo,
                 reply, probeVars, delays, nextId, posted>>

\* Line 152 resolved: lines 154-185, up to the start of the timer
PageFetched ==
  /\ pc = "fetch"
  /\ messages.ok
  /\ LET page == messages.page
     IN  IF Len(page) = 0
         THEN /\ Return("empty")
              /\ UNCHANGED <<userScores, lastId, messagesProcessed,
                             scoresFound, visited, appended>>
         ELSE \E acc \in {ProcessMessages(page, 1,
                              [userScores |-> userScores,
                               scoresFound |-> scoresFound,
                               visited |-> visited,
                               appended |-> appended,
                               crossed |-> FALSE])} :
                  /\ messagesProcessed' = messagesProcessed + Len(page)
                  /\ lastId' = Cursor(page)
                  /\ userScores' = acc.userScores
                  /\ scoresFound' = acc.scoresFound
                  /\ visited' = acc.visited
                  /\ appended' = acc.appended
                  /\ IF acc.crossed
                     THEN Return("horizon")
                     ELSE pc' = "delay" /\ UNCHANGED <<exit, returned>>
  /\ UNCHANGED <<now, envVars, channelMessages, gateway, oneYearAgo, messages,
                 reply, probeVars, fetches, delays, nextId, posted>>

FetchFailedRetry ==
  /\ pc = "fetch"
  /\ ~messages.ok
  /\ exit' = "error"
  /\ fetches < MaxFetches
  /\ fetches' = fetches + 1
  /\ messages' \in FetchOutcomes(channelMessages, batchSize, lastId)
  /\ UNCHANGED <<now, envVars, channelMessages, gateway, userScores, pc,
                 oneYearAgo, lastId, messagesProcessed, scoresFound, returned,
                 reply, probeVars, delays, visited, appended, nextId, posted>>

\* Line 152 rejected: the catch of lines 192-194
FetchFailed ==
  /\ pc = "fetch"
  /\ ~messages.ok
  /\ Return("error")
  /\ UNCHANGED <<now, envVars, channelMessages, gateway, userScores,
                 crawlLocals, reply, probeVars, history, nextId, posted>>

\* Line 185 resolved: line 188, then the end of the loop or the next fetch
DelayElapsed ==
  /\ pc = "delay"
  /\ delays' = delays + 1
  /\ IF Len(messages.page) < batchSize
     THEN Return("short") /\ UNCHANGED <<messages, fetches>>
     ELSE IssueFetch(lastId)
  /\ UNCHANGED <<now, envVars, channelMessages, gateway, userScores,
                 oneYearAgo, lastId, messagesProcessed, scoresFound, reply,
                 probeVars, visited, appended, nextId, posted>>

----------------------------------------------------------------------------
(* Live ingest *)

\* A member posts a message: the platform stores it in its channel and sends
\* the client a messageCreate event
PostMessage(author, text, channel) ==
  /\ posted < MaxLive
  /\ LET message == Message(nextId, author, text, now, channel)
     IN  /\ gateway' = Append(gateway, message)
         /\ channelMessages' =
              IF channel = WORDLE_CHANNEL_NAME /\ channelPresent
              THEN Append(channelMessages, message)
              ELSE channelMessages
  /\ nextId' = nextId + 1
  /\ posted' = posted + 1
  /\ UNCHANGED <<now, envVars, userScores, pc, crawlLocals, exit, returned,
                 reply, probeVars, history>>

messageCreateAnyChannel ==
  /\ gateway # <<>>
  /\ gateway' = Tail(gateway)
  /\ \E message \in {Head(gateway)} :
       \E score \in {parseWordleScore(message.content)} :
         IF score # null
         THEN /\ userScores' = StoreScore(userScores, message, score)
              /\ appended' = Append(appended,
                               [id |-> message.id, via |-> "live",
                                userId |-> message.author,
                                record |-> ScoreOf(score, message)])
         ELSE UNCHANGED <<userScores, appended>>
  /\ UNCHANGED <<now, envVars, channelMessages, pc, crawlLocals, exit,
                 returned, reply, probeVars, fetches, delays, visited, nextId,
                 posted>>

\* Lines 198-216
messageCreate ==
  /\ gateway # <<>>
  /\ gateway' = Tail(gateway)
  /\ \E message \in {Head(gateway)} :
       IF message.channel # WORDLE_CHANNEL_NAME
       THEN UNCHANGED <<userScores, appended>>
       ELSE \E score \in {parseWordleScore(message.content)} :
              IF score # null
              THEN /\ userScores' = StoreScore(userScores, message, score)
                   /\ appended' = Append(appended,
                                    [id |-> message.id, via |-> "live",
                                     userId |-> message.author,
                                     record |-> ScoreOf(score, message)])
              ELSE UNCHANGED <<userScores, appended>>
  /\ UNCHANGED <<now, envVars, channelMessages, pc, crawlLocals, exit,
                 returned, reply, probeVars, fetches, delays, visited, nextId,
                 posted>>

\* Time passes
Tick ==
  /\ now < StartTime + MaxTicks
  /\ now' = now + 1
  /\ UNCHANGED <<envVars, channelMessages, gateway, userScores, pc,
                 crawlLocals, exit, returned, reply, probeVars, history,
                 nextId, posted>>

----------------------------------------------------------------------------
(* The wordlestats command *)

PeriodChoices == {"today", "month", "three_months", "six_months", "year"}

\* Lines 224-248: startDate for a period chosen at time t
StartDate(periodChoice, t) ==
  CASE periodChoice = "today" -> setHours(t)
    [] periodChoice = "month" -> setHours(setMonth(t, getMonth(t) - 1))
    [] periodChoice = "three_months" -> setHours(setMonth(t, getMonth(t) - 3))
    [] periodChoice = "six_months" -> setHours(setMonth(t, getMonth(t) - 6))
    [] periodChoice = "year" -> setHours(setFullYear(t, getFullYear(t) - 1))
    [] OTHER -> t

\* Lines 219-256: the window of the period and the statistics replied
interactionCreate(periodChoice) ==
  /\ LET startDate == StartDate(periodChoice, now)
         endDate == now
     IN  reply' = <<calculateStats(startDate, endDate)>>
  /\ UNCHANGED <<now, envVars, channelMessages, gateway, userScores, pc,
                 crawlLocals, exit, returned, probeVars, history, nextId,
                 posted>>

----------------------------------------------------------------------------
(* The specification *)

Next ==
  \/ RegistrationDone
  \/ RegistrationFailed
  \/ PageFetched
  \/ FetchFailed
  \/ DelayElapsed
  \/ \E post \in LivePosts : PostMessage(post[1], post[2], post[3])
  \/ messageCreate
  \/ Tick
  \/ \E periodChoice \in PeriodChoices : interactionCreate(periodChoice)

Spec == Init /\ [][Next]_vars

----------------------------------------------------------------------------
(* Notions the properties are stated with *)

Count(seq, x) == Cardinality({i \in 1..Len(seq) : seq[i] = x})

IsPrefix(s, t) == Len(s) <= Len(t) /\ SubSeq(t, 1, Len(s)) = s

\* The messages that were in the channel before the bot connected
HistoryMessages ==
  SelectSeq(channelMessages, LAMBDA m : m.id < nextId - posted)

\* The entries of the history of pushes made by one producer
AppendedBy(log, producer) == SelectSeq(log, LAMBDA a : a.via = producer)

\* The records pushed for one user, in order
RECURSIVE RecordsFor(_, _)
RecordsFor(log, userId) ==
  IF log = <<>> THEN <<>>
  ELSE LET rest == RecordsFor(SubSeq(log, 1, Len(log) - 1), userId)
           last == log[Len(log)]
       IN  IF last.userId = userId THEN Append(rest, last.record) ELSE rest

ScoresOf(map, userId) == IF has(map, userId) THEN get(map, userId) ELSE <<>>

\* Every entry of the old map is in the new one, at its place, and its
\* sequence is a prefix of the new one
StoreExtends(old, new) ==
  /\ Len(old) <= Len(new)
  /\ \A i \in 1..Len(old) :
       /\ new[i].userId = old[i].userId
       /\ IsPrefix(old[i].scores, new[i].scores)

----------------------------------------------------------------------------
(* Properties *)

\* C1: when the crawl ends without a fetch error and without meeting a
\* message older than the horizon, every message that was in the channel
\* before the bot connected has been parsed by the crawl exactly once; and at
\* no time has the crawl parsed a message twice.
C1_VisitedExactlyOnce ==
  /\ \A i \in 1..Len(channelMessages) :
       Count(visited, channelMessages[i].id) <= 1
  /\ (/\ pc = "done"
      /\ exit \in {"empty", "short"}
      /\ \A i \in 1..Len(channelMessages) :
           channelMessages[i].createdAt >= oneYearAgo)
     => \A i \in 1..Len(HistoryMessages) :
          Count(visited, HistoryMessages[i].id) = 1

\* A history of exactly one full page, crawled to the empty second page
C1_Witness ==
  /\ pc = "done"
  /\ exit = "empty"
  /\ fetches = 2
  /\ Len(HistoryMessages) = batchSize
  /\ Len(visited) = batchSize

\* C2: no record pushed by the crawl is older than the horizon; the crawl
\* goes on to the delay only after a page without a message older than the
\* horizon; and once it has met such a message it fetches no page and pushes
\* no record.
C2_HorizonCutOff ==
  [][/\ \A i \in 1..Len(appended') :
          appended'[i].via = "crawl" => appended'[i].record.timestamp >= oneYearAgo'
     /\ pc' = "delay" =>
          \A i \in 1..Len(messages'.page) :
            messages'.page[i].createdAt >= oneYearAgo'
     /\ exit = "horizon" =>
          /\ pc' = "done"
          /\ fetches' = fetches
          /\ visited' = visited
          /\ AppendedBy(appended', "crawl") = AppendedBy(appended, "crawl")]_vars

\* The horizon is met in the middle of the first page, after one record
C2_Witness ==
  /\ exit = "horizon"
  /\ fetches = 1
  /\ Len(messages.page) = batchSize
  /\ Len(visited) = 1
  /\ Len(AppendedBy(appended, "crawl")) = 1

\* C3: no message contributes two records to the store.
C3_CountedOnce ==
  \A i, j \in 1..Len(appended) : appended[i].id = appended[j].id => i = j

\* C6: after a crawl aborted by a fetch error the caller holds a value that
\* no completed crawl returns.
C6_CallerTold ==
  (pc = "done" /\ exit = "error")
    => returned \notin {ReturnValue(how) : how \in {"empty", "short", "horizon"}}

\* C7: a page fetch other than the first is issued only when a delay has
\* completed since the fetch before it.
C7_DelayBetweenFetches ==
  /\ fetches <= delays + 1
  /\ pc = "fetch" => delays = fetches - 1

\* A second fetch has been issued
C7_Witness == pc = "fetch" /\ fetches = 2 /\ delays = 1

\* C8: every step leaves every user's sequence a prefix of what it becomes
\* and removes no user; a step that replies to the stats command leaves the
\* store as it is.
C8_AppendOnly ==
  [][/\ StoreExtends(userScores, userScores')
     /\ reply' # reply => userScores' = userScores]_vars

\* A user has two records and a stats command has been answered
C8_Witness ==
  /\ reply # NoReply
  /\ \E i \in 1..Len(userScores) : Len(userScores[i].scores) >= 2

\* C9: the sequence the store holds for a user is the sequence of the records
\* parsed for that user by the two producers, in the order they were pushed.
C9_NoAppendLost ==
  \A userId \in Users : ScoresOf(userScores, userId) = RecordsFor(appended, userId)

\* The crawl and live ingest have each pushed a record of a different message
\* for the same user
C9_Witness ==
  \E i, j \in 1..Len(appended) :
    /\ appended[i].via = "crawl"
    /\ appended[j].via = "live"
    /\ appended[i].userId = appended[j].userId
    /\ appended[i].id # appended[j].id

\* The crawl among live traffic, at a clock that stands still
CrawlNext ==
  \/ RegistrationDone
  \/ RegistrationFailed
  \/ PageFetched
  \/ FetchFailed
  \/ DelayElapsed
  \/ \E post \in LivePosts : PostMessage(post[1], post[2], post[3])
  \/ messageCreate

\* The awaited registration and fetch settle, the timer fires, and the event
\* loop runs the continuation
Fairness ==
  /\ WF_vars(RegistrationDone \/ RegistrationFailed)
  /\ WF_vars(PageFetched)
  /\ WF_vars(FetchFailed)
  /\ WF_vars(DelayElapsed)

FairSpec == Init /\ [][CrawlNext]_vars /\ Fairness

\* C4: a crawl that has issued a fetch ends (fetchHistoricalMessages returns),
\* and once it has ended it issues no fetch, parses no message and pushes no
\* record.
C4_Termination ==
  /\ (pc \in {"fetch", "delay"}) ~> (pc = "done")
  /\ [][pc = "done" =>
          /\ pc' = "done"
          /\ exit' = exit
          /\ fetches' = fetches
          /\ visited' = visited
          /\ AppendedBy(appended', "crawl") = AppendedBy(appended, "crawl")]_vars

\* The crawl has ended after more than one page
C4_Witness == pc = "done" /\ fetches >= 2 /\ exit \in {"empty", "short", "horizon", "error"}

\* C5: the step in which a fetch fails changes no record; from then on the
\* crawl stays ended, no fetch is issued, the crawl pushes nothing, no record
\* is removed or changed, a message of the channel that parses is pushed to
\* its author's sequence and a stats command is answered with the statistics
\* of its window.
C5_FetchFailurePolicy ==
  [][/\ (exit # "error" /\ exit' = "error") =>
          (userScores' = userScores /\ appended' = appended)
     /\ exit = "error" =>
          /\ pc' = "done" /\ exit' = "error"
          /\ fetches' = fetches
          /\ AppendedBy(appended', "crawl") = AppendedBy(appended, "crawl")
          /\ StoreExtends(userScores, userScores')
          /\ (gateway # <<>> /\ gateway' = Tail(gateway)
              /\ Head(gateway).channel = WORDLE_CHANNEL_NAME
              /\ Match(Head(gateway).content) # null) =>
               LET before == ScoresOf(userScores, Head(gateway).author)
                   after == ScoresOf(userScores', Head(gateway).author)
               IN  /\ Len(after) = Len(before) + 1
                   /\ after[Len(after)].timestamp = Head(gateway).createdAt
          /\ reply' # reply =>
               \E periodChoice \in PeriodChoices :
                 reply' = <<calculateStats(StartDate(periodChoice, now), now)>>]_vars

\* The second fetch failed after the first page gave a record; a live message
\* has been recorded and a stats command answered
C5_Witness ==
  /\ exit = "error"
  /\ fetches = 2
  /\ AppendedBy(appended, "crawl") # <<>>
  /\ AppendedBy(appended, "live") # <<>>
  /\ reply # NoReply /\ reply[1] # <<>>

----------------------------------------------------------------------------
(* parseWordleScore by itself: a text is parsed, and posted to the bot *)

ParseInit ==
  /\ guildPresent = TRUE
  /\ channelPresent = TRUE
  /\ channelMessages = <<>>
  /\ content \in ParseTexts
  /\ InitCommon

\* parseWordleScore(content) is called
ParseContent ==
  /\ parsed' = parseWordleScore(content)
  /\ UNCHANGED <<now, envVars, channelMessages, gateway, userScores, pc,
                 crawlLocals, exit, returned, reply, content, window, history,
                 nextId, posted>>

ParseNext ==
  \/ ParseContent
  \/ PostMessage("u1", content, WORDLE_CHANNEL_NAME)
  \/ messageCreate
  \/ Tick

ParseSpec == ParseInit /\ [][ParseNext]_vars

\* The result token of a score line: what stands between the last whitespace
\* before the first slash and that slash
ResultToken(text) ==
  LET slashes == {i \in 1..Len(text) : text[i] = "/"}
      slash == CHOOSE i \in slashes : \A j \in slashes : i <= j
      blanks == {i \in 1..(slash - 1) : IsSpace(text[i])}
      start == IF blanks = {} THEN 0
               ELSE CHOOSE i \in blanks : \A j \in blanks : j <= i
  IN  IF slashes = {} THEN <<>> ELSE SubSeq(text, start + 1, slash - 1)

\* C10: a record that parseWordleScore returns, and a record of the store,
\* has a score in 1..7; the record of a text whose result token is X or x has
\* score 7, that of a text whose result token is a digit 1-6 has the digit as
\* its score, and a text with any other result token gives null.
C10_Attempts ==
  /\ parsed \notin {Unparsed, null} =>
       /\ parsed.score \in 1..7
       /\ ResultToken(content) \in {<<"X">>, <<"x">>} => parsed.score = 7
       /\ \A d \in 1..6 : ResultToken(content) = <<Digits[d + 1]>> => parsed.score = d
  /\ (/\ parsed # Unparsed
      /\ ResultToken(content) \notin {<<"X">>, <<"x">>} \cup {<<Digits[d + 1]>> : d \in 1..6})
     => parsed = null
  /\ \A i \in 1..Len(userScores) :
       \A k \in 1..Len(userScores[i].scores) : userScores[i].scores[k].score \in 1..7

\* A text with the result token x has been parsed and its record is stored
C10_Witness ==
  /\ ResultToken(content) = <<"x">>
  /\ parsed \notin {Unparsed, null}
  /\ \E i \in 1..Len(userScores) :
       \E k \in 1..Len(userScores[i].scores) : userScores[i].scores[k].score = 7

\* C11: two calls of parseWordleScore on the same text, whatever the times
\* they are made at, return equal results.
C11_ParseIsPure ==
  [][(parsed # Unparsed /\ parsed' # Unparsed) => parsed' = parsed]_vars

----------------------------------------------------------------------------
(* The timestamps of the store *)

\* The entries of the history of pushes made for one user
EntriesFor(log, userId) == SelectSeq(log, LAMBDA a : a.userId = userId)

\* The messages the platform holds or has sent and not yet seen handled
KnownMessages == channelMessages \o gateway

\* C12: the k-th record of a user's sequence in the store carries the creation
\* time of the message the k-th push for that user was parsed from, whichever
\* producer pushed it, however much later it was parsed.
C12_AuthoritativeTimestamp ==
  [][/\ \A userId \in Users :
          LET scores == ScoresOf(userScores', userId)
              entries == EntriesFor(appended', userId)
          IN  /\ Len(scores) = Len(entries)
              /\ \A k \in 1..Len(scores) :
                   \A i \in 1..Len(KnownMessages') :
                     KnownMessages'[i].id = entries[k].id =>
                       scores[k].timestamp = KnownMessages'[i].createdAt
     /\ (gateway # <<>> /\ gateway' = Tail(gateway)
         /\ Len(appended') = Len(appended) + 1) =>
          /\ appended'[Len(appended')].id = Head(gateway).id
          /\ ScoresOf(userScores', Head(gateway).author)
               [Len(ScoresOf(userScores', Head(gateway).author))].timestamp
                 = Head(gateway).createdAt]_vars

\* The store holds a record of the crawl, parsed a year after its message was
\* created, and a record of a live message handled a tick after it was posted
C12_Witness ==
  /\ now = StartTime + 1
  /\ \E i, j \in 1..Len(appended) :
       /\ appended[i].via = "crawl"
       /\ appended[i].record.timestamp < StartTime
       /\ appended[j].via = "live"
       /\ appended[j].record.timestamp = StartTime
  /\ \E i \in 1..Len(userScores) :
       \E k \in 1..Len(userScores[i].scores) :
         userScores[i].scores[k].timestamp = StartTime

----------------------------------------------------------------------------
(* calculateStats by itself: the crawl fills the store from a channel of      *)
(* solved and failed puzzles of three members, and calculateStats is called   *)
(* with windows around the times of the messages                              *)

\* "Wordle 5 2/6"
Score2Text == <<"W", "o", "r", "d", "l", "e", " ", "5", " ", "2", "/", "6">>
\* "Wordle 5 4/6"
Score4Text == <<"W", "o", "r", "d", "l", "e", " ", "5", " ", "4", "/", "6">>

\* The first member solves in 2 or 4 or fails, the second solves in 4 or
\* fails, the third solves in 4
StatsPosts ==
  {<<"u1", text>> : text \in {Score2Text, Score4Text, FailText}}
    \cup {<<"u2", text>> : text \in {Score4Text, FailText}}
    \cup {<<"u3", Score4Text>>}

StatsUsers == {post[1] : post \in StatsPosts}

\* The messages were created on the two ticks before the bot connects
StatsTimes == {StartTime - 2, StartTime - 1}

\* Windows that start and end at those ticks, the empty one included
WindowStarts == StatsTimes
WindowEnds == StatsTimes

StatsInit ==
  /\ guildPresent = TRUE
  /\ channelPresent = TRUE
  /\ \E n \in 0..MaxHistory :
       channelMessages \in HistoriesOf(StatsPosts, StatsTimes, n)
  /\ content = <<>>
  /\ InitCommon

\* calculateStats(startDate, endDate) is called
Aggregate(startDate, endDate) ==
  /\ window' = [periodChoice |-> "", startDate |-> startDate, endDate |-> endDate]
  /\ reply' = <<calculateStats(startDate, endDate)>>
  /\ UNCHANGED <<now, envVars, channelMessages, gateway, userScores, pc,
                 crawlLocals, exit, returned, content, parsed, history, nextId,
                 posted>>

StatsNext ==
  \/ RegistrationDone
  \/ PageFetched
  \/ FetchFailed
  \/ DelayElapsed
  \/ \E startDate \in WindowStarts, endDate \in WindowEnds :
       Aggregate(startDate, endDate)

StatsSpec == StatsInit /\ [][StatsNext]_vars

\* The places in a user's sequence of the records inside a window
RecordsInWindow(map, userId, w) ==
  {k \in 1..Len(ScoresOf(map, userId)) :
     /\ w.startDate <= ScoresOf(map, userId)[k].timestamp
     /\ ScoresOf(map, userId)[k].timestamp <= w.endDate}

SumBuckets(distribution) ==
  distribution[1] + distribution[2] + distribution[3] + distribution[4]
    + distribution[5] + distribution[6] + distribution[7]

\* C13: whenever calculateStats returns, each UserStat has totalGames equal to
\* the number of the user's records with startDate <= timestamp <= endDate,
\* its seven buckets sum to totalGames, and its bucket X counts the records
\* of the window whose score is 7.
C13_Aggregation ==
  [][reply' # reply =>
       \A i \in 1..Len(reply'[1]) :
         LET stat == reply'[1][i]
             inside == RecordsInWindow(userScores', stat.userId, window')
         IN  /\ stat.totalGames = Cardinality(inside)
             /\ SumBuckets(stat.distribution) = stat.totalGames
             /\ stat.distribution[7] =
                  Cardinality({k \in inside :
                                 ScoresOf(userScores', stat.userId)[k].score = 7})]_vars

\* A window of a single instant holds two of a user's three records, one of
\* them a failure
C13_Witness ==
  /\ reply # NoReply
  /\ window.startDate = window.endDate
  /\ \E i \in 1..Len(reply[1]) :
       /\ reply[1][i].totalGames = 2
       /\ reply[1][i].distribution[7] = 1
       /\ Cardinality(RecordsInWindow(userScores, reply[1][i].userId, window)) = 2
       /\ Len(ScoresOf(userScores, reply[1][i].userId)) = 3

\* C14: whenever calculateStats returns, a user has a UserStat in the result
\* exactly when the user has a record in the window; every UserStat has a
\* positive totalGames and a number as averageScore, and no two are of the
\* same user.
C14_EmittedIffInWindow ==
  [][reply' # reply =>
       LET stats == reply'[1]
       IN  /\ \A userId \in StatsUsers :
                (\E i \in 1..Len(stats) : stats[i].userId = userId)
                  <=> RecordsInWindow(userScores', userId, window') # {}
           /\ \A i \in 1..Len(stats) :
                /\ stats[i].totalGames > 0
                /\ stats[i].averageScore \in 100..700
           /\ \A i, j \in 1..Len(stats) :
                stats[i].userId = stats[j].userId => i = j]_vars

\* The store holds records of two users, and the window the records of one
C14_Witness ==
  /\ reply # NoReply
  /\ Len(reply[1]) = 1
  /\ Len(userScores) = 2
  /\ \E i \in 1..2 :
       /\ userScores[i].scores # <<>>
       /\ RecordsInWindow(userScores, userScores[i].userId, window) = {}

\* The place of a user's entry in the Map: the order the entries were created in
EntryOf(map, userId) == CHOOSE i \in 1..Len(map) : map[i].userId = userId

\* C15: whenever calculateStats returns, averageScore does not decrease along
\* the result, and of two UserStats with the same averageScore the one of the
\* user whose entry was created first in the store comes first.
C15_Ranking ==
  [][reply' # reply =>
       LET stats == reply'[1]
       IN  \A i, j \in 1..Len(stats) :
             i < j =>
               /\ stats[i].averageScore <= stats[j].averageScore
               /\ stats[i].averageScore = stats[j].averageScore =>
                    EntryOf(userScores', stats[i].userId)
                      < EntryOf(userScores', stats[j].userId)]_vars

\* Three users are ranked: the one whose entry was created last has the lowest
\* average and comes first, the other two have the same average
C15_Witness ==
  /\ reply # NoReply
  /\ Len(reply[1]) = 3
  /\ Len(userScores) = 3
  /\ reply[1][1].averageScore < reply[1][2].averageScore
  /\ reply[1][2].averageScore = reply[1][3].averageScore
  /\ userScores[3].userId = reply[1][1].userId

\* A user's records inside a window, the number of them with a given score,
\* and the sum of their scores
WindowRecords(map, userId, w) ==
  SelectSeq(ScoresOf(map, userId),
            LAMBDA r : w.startDate <= r.timestamp /\ r.timestamp <= w.endDate)

ScoreCount(records, v) ==
  Cardinality({k \in 1..Len(records) : records[k].score = v})

ScoreSum(records) ==
  ScoreCount(records, 1) + 2 * ScoreCount(records, 2)
    + 3 * ScoreCount(records, 3) + 4 * ScoreCount(records, 4)
    + 5 * ScoreCount(records, 5) + 6 * ScoreCount(records, 6)
    + 7 * ScoreCount(records, 7)

Abs(x) == IF x < 0 THEN -x ELSE x

\* C16: whenever calculateStats returns, the averageScore of a UserStat, in
\* hundredths, is the multiple of a hundredth nearest to the sum of the scores
\* of the user's records in the window divided by their number, a failure
\* counting 7; for records with scores 2, 4 and 7 in the window it is 4.33,
\* with totalGames 3 and one game each in the buckets 2, 4 and X.
C16_AverageScore ==
  [][reply' # reply =>
       \A i \in 1..Len(reply'[1]) :
         \E records \in {WindowRecords(userScores', reply'[1][i].userId, window')} :
           LET stat == reply'[1][i]
               n == Len(records)
           IN  /\ 2 * Abs(stat.averageScore * n - 100 * ScoreSum(records)) <= n
               /\ (n = 3 /\ \A v \in {2, 4, 7} : ScoreCount(records, v) = 1) =>
                    /\ stat.averageScore = 433
                    /\ stat.totalGames = 3
                    /\ stat.distribution =
                         [b \in 1..7 |-> IF b \in {2, 4, 7} THEN 1 ELSE 0]]_vars

\* The window holds a user's three records with the scores 2, 4 and 7
C16_Witness ==
  /\ reply # NoReply
  /\ Len(reply[1]) = 1
  /\ reply[1][1].averageScore = 433
  /\ \A v \in {2, 4, 7} :
       ScoreCount(WindowRecords(userScores, reply[1][1].userId, window), v) = 1

----------------------------------------------------------------------------
(* Startup *)

\* C17: with no guild, or no channel of the designated name, the crawl ends at
\* its start (as noGuild, noChannel), issues no fetch, parses no message and
\* pushes no record; after that a message of a channel of that name that
\* parses is pushed to its author's sequence, and a stats command is answered
\* with the statistics of its window.
C17_BackfillSkipped ==
  [][/\ (~guildPresent \/ ~channelPresent) =>
          /\ fetches' = 0
          /\ visited' = <<>>
          /\ AppendedBy(appended', "crawl") = <<>>
          /\ (pc = "register" /\ pc' = "done") =>
               exit' = IF ~guildPresent THEN "noGuild" ELSE "noChannel"
     /\ exit \in {"noGuild", "noChannel"} =>
          /\ pc' = "done" /\ exit' = exit
          /\ (gateway # <<>> /\ gateway' = Tail(gateway)
              /\ Head(gateway).channel = WORDLE_CHANNEL_NAME
              /\ Match(Head(gateway).content) # null) =>
               /\ Len(appended') = Len(appended) + 1
               /\ appended'[Len(appended')].id = Head(gateway).id
               /\ Len(ScoresOf(userScores', Head(gateway).author))
                    = Len(ScoresOf(userScores, Head(gateway).author)) + 1
          /\ reply' # reply =>
               \E periodChoice \in PeriodChoices :
                 reply' = <<calculateStats(StartDate(periodChoice, now), now)>>]_vars

\* The guild has no channel of the designated name: the crawl was skipped, a
\* live message has been recorded and a stats command answered with it
C17_Witness ==
  /\ guildPresent /\ ~channelPresent
  /\ exit = "noChannel"
  /\ fetches = 0
  /\ AppendedBy(appended, "live") # <<>>
  /\ reply # NoReply /\ reply[1] # <<>>

----------------------------------------------------------------------------
(* Live ingest *)

\* C18: the handling of a messageCreate event changes the store exactly when
\* the message is of the designated channel and its text matches; then the
\* author's sequence is what it was with one record more at its end, and the
\* sequence of every other user is what it was.
C18_LiveIngestEffect ==
  [][(gateway # <<>> /\ gateway' = Tail(gateway)) =>
       LET message == Head(gateway)
           recorded == /\ message.channel = WORDLE_CHANNEL_NAME
                       /\ Match(message.content) # null
           before == ScoresOf(userScores, message.author)
           after == ScoresOf(userScores', message.author)
       IN  /\ userScores' # userScores <=> recorded
           /\ recorded =>
                /\ Len(after) = Len(before) + 1
                /\ SubSeq(after, 1, Len(before)) = before
                /\ \A userId \in Users \ {message.author} :
                     /\ has(userScores', userId) <=> has(userScores, userId)
                     /\ ScoresOf(userScores', userId) = ScoresOf(userScores, userId)]_vars

\* A live message has been recorded while the store holds the sequence of
\* another user, filled by the crawl
C18_Witness ==
  /\ gateway = <<>>
  /\ \E i, j \in 1..Len(appended) :
       /\ appended[i].via = "live"
       /\ appended[j].via = "crawl"
       /\ appended[i].userId # appended[j].userId

----------------------------------------------------------------------------
(* The window of a period by itself: the command arrives at some date and    *)
(* lines 223-248 compute startDate and endDate                              *)

\* First, 29th and 31st days of the months of 2023 and 2024, at midnight and
\* a tick past it (a day the month does not have is the day the Date
\* constructor makes of it)
WindowDates ==
  {MakeTime(y, m, d, tod) :
     y \in {2023, 2024}, m \in 0..11, d \in {1, 29, 31}, tod \in {0, 1}}

WindowInit ==
  /\ guildPresent = TRUE
  /\ channelPresent = TRUE
  /\ channelMessages = <<>>
  /\ content = <<>>
  /\ now \in WindowDates
  /\ gateway = <<>>
  /\ userScores = <<>>
  /\ pc = "register"
  /\ oneYearAgo = 0
  /\ lastId = NoId
  /\ messagesProcessed = 0
  /\ scoresFound = 0
  /\ messages = NoMessages
  /\ exit = "none"
  /\ returned = "pending"
  /\ reply = NoReply
  /\ parsed = Unparsed
  /\ window = NoWindow
  /\ fetches = 0
  /\ delays = 0
  /\ visited = <<>>
  /\ appended = <<>>
  /\ nextId = 1
  /\ posted = 0

\* Lines 223-248
ComputeWindow(periodChoice) ==
  /\ window' = [periodChoice |-> periodChoice,
                startDate |-> StartDate(periodChoice, now),
                endDate |-> now]
  /\ UNCHANGED <<now, envVars, channelMessages, gateway, userScores, pc,
                 crawlLocals, exit, returned, reply, content, parsed, history,
                 nextId, posted>>

WindowNext ==
  \/ \E periodChoice \in PeriodChoices : ComputeWindow(periodChoice)
  \/ \E periodChoice \in PeriodChoices : interactionCreate(periodChoice)

WindowSpec == WindowInit /\ [][WindowNext]_vars

\* The months from year 0 to the month a time falls in
MonthNumber(t) == 12 * getFullYear(t) + getMonth(t)

MonthsBack(periodChoice) ==
  CASE periodChoice = "month" -> 1
    [] periodChoice = "three_months" -> 3
    [] periodChoice = "six_months" -> 6
    [] periodChoice = "year" -> 12
    [] OTHER -> 0

\* C19: the window of a period ends now and starts at a midnight not after
\* now: for today the midnight of the current day, for month, three_months,
\* six_months and year a midnight in the calendar month 1, 3, 6 and 12 months
\* before the month of now.
C19_WindowStart ==
  window # NoWindow =>
    /\ window.endDate = now
    /\ window.startDate <= window.endDate
    /\ TimeOfDay(window.startDate) = 0
    /\ window.periodChoice = "today" => DayOf(window.startDate) = DayOf(now)
    /\ MonthNumber(window.startDate)
         = MonthNumber(now) - MonthsBack(window.periodChoice)

----------------------------------------------------------------------------
(* Startup order *)

\* C20: while the registration of the commands is awaited no page has been
\* fetched, and the first fetch is issued by the step that follows its
\* success; when the registration fails the handler stays ended, no page is
\* ever fetched, the crawl parses and pushes nothing, and every record of the
\* store was pushed by live ingest.
C20_StartupOrder ==
  [][/\ pc = "register" =>
          /\ fetches = 0
          /\ visited = <<>>
          /\ AppendedBy(appended, "crawl") = <<>>
     /\ (fetches = 0 /\ fetches' > 0) => (pc = "register" /\ pc' = "fetch")
     /\ pc' = "setupFailed" =>
          /\ pc \in {"register", "setupFailed"}
          /\ fetches' = 0
          /\ visited' = <<>>
          /\ exit' = "none"
          /\ \A i \in 1..Len(appended') : appended'[i].via = "live"
          /\ \A userId \in Users :
               ScoresOf(userScores', userId)
                 = RecordsFor(AppendedBy(appended', "live"), userId)
     /\ pc = "setupFailed" => pc' = "setupFailed"]_vars

\* The registration failed, and the store holds the record of a live message
C20_Witness ==
  /\ pc = "setupFailed"
  /\ channelMessages # <<>>
  /\ userScores # <<>>
  /\ AppendedBy(appended, "live") # <<>>

====
